---- MODULE Spec2Model ----
(***************************************************************************)
(* Mental-Math trainer: the Leitner card table (trainer/models.py), the    *)
(* learner streak (UserProfile) and the answer-submission view             *)
(* (trainer/views.py), as a state machine over the database tables and the *)
(* request workers that read and write them.                               *)
(*                                                                         *)
(* Time is counted in clock ticks, TicksPerDay of them to a day.  Every    *)
(* Django model instance a worker holds is a private in-memory copy of a   *)
(* row; Model.save() writes every field of that copy back to the row with  *)
(* the same primary key.                                                   *)
(*                                                                         *)
(* Spec:     two workers on two cards of one learner (races).              *)
(* SpecRace: two workers fetching and creating two cards of one learner.   *)
(* SpecDeep: one worker answering one card many times (the box machine).   *)
(* SpecDue:  one worker, three cards of two learners (the due queue).      *)
(* SpecView: two workers serving index and check_answer (the streak).      *)
(* SpecReject: two workers, requests that check_answer rejects.            *)
(* SpecAnswer: one worker judging answers to a stored question.            *)
(* SpecGen:  one worker generating questions for any requested topic.      *)
(* SpecFrame: one worker reviewing cards and serving answer submissions.   *)
(* SpecSeq:  two workers, each learner's submissions one at a time.        *)
(***************************************************************************)
EXTENDS Integers, Sequences, FiniteSets, TLC

\* ------------------------------------------------------------------ bounds
TicksPerDay == 2        \* resolution of the model clock
MaxTicks == 1           \* Spec: the clock stops advancing at this tick
MaxAnswers == 2         \* Spec: record_answer calls in one behaviour
RaceTicks == 1          \* SpecRace: the clock stops advancing at this tick
RaceAnswers == 1        \* SpecRace: record_answer calls in one behaviour
DeepTicks == 3          \* SpecDeep: the clock stops advancing at this tick
DeepAnswers == 6        \* SpecDeep: record_answer calls on the one card
DueTicks == 3           \* SpecDue: the clock stops advancing at this tick
DueAnswers == 1         \* SpecDue: record_answer calls in one behaviour
MaxQuestions == 1       \* SpecView: rows in the question table
MaxSubmissions == 3     \* SpecView: check_answer requests in one behaviour
FrameTicks == 0         \* SpecFrame: the clock stands still
FrameAnswers == 2       \* SpecFrame: record_answer calls in one behaviour
FrameSubmissions == 1   \* SpecFrame: check_answer requests in one behaviour
SeqSubmissions == 3     \* SpecSeq: check_answer requests in one behaviour
GenQuestions == 2       \* SpecGen: rows in the question table
AnswerSubmissions == 2  \* SpecAnswer: check_answer requests in one behaviour
RejectQuestions == 2    \* SpecReject: rows in the question table
RejectSubmissions == 2  \* SpecReject: check_answer requests that pass the checks

\* ------------------------------------------------------- program constants
MAX_BOX == 5

Procs == {1, 2}                       \* concurrent request workers
Users == {"Arthur", "Lena"}           \* two of the seeded learners

NoTime == -1                          \* last_reviewed = None
Boxes == 1..MAX_BOX

Min(a, b) == IF a <= b THEN a ELSE b

\* LeitnerCard.BOX_INTERVALS, in days; .get(box, 0) for a box not in the table
BOX_INTERVALS(box) ==
    CASE box = 1 -> 0
      [] box = 2 -> 1
      [] box = 3 -> 3
      [] box = 4 -> 7
      [] box = 5 -> 14
      [] OTHER -> 0

\* timedelta(days = n) in ticks
timedelta(days) == days * TicksPerDay

\* ----------------------------------------------------------------- decimals
\* A Decimal with ten decimal places (DecimalField(decimal_places=10), and
\* the quantum of quantize) is a triple <<i, h, l>> that stands for
\* i + h / 10^5 + l / 10^10 with 0 <= h, l < 10^5; a negative value has a
\* negative i, so that every value has one triple.
Limb == 100000

\* the triple of i + h / 10^5 + l / 10^10 for any integers i, h, l
DecNorm(i, h, l) ==
    LET l0 == l % Limb
        h1 == h + (l - l0) \div Limb
        h0 == h1 % Limb
    IN <<i + (h1 - h0) \div Limb, h0, l0>>

\* Decimal(str(n)) for an integer n
Decimal(n) == <<n, 0, 0>>
\* Decimal('0.0000000001'), Decimal('0.001') and Decimal('0.01')
Quantum == <<0, 0, 1>>
Thousandth == <<0, 100, 0>>
Hundredth == <<0, 1000, 0>>

DecAdd(a, b) == DecNorm(a[1] + b[1], a[2] + b[2], a[3] + b[3])
DecSub(a, b) == DecNorm(a[1] - b[1], a[2] - b[2], a[3] - b[3])
DecAbs(a) == IF a[1] < 0 THEN DecNorm(-a[1], -a[2], -a[3]) ELSE a
\* a * k for a small integer k
DecTimes(a, k) == DecNorm(a[1] * k, a[2] * k, a[3] * k)
\* a <= b
DecLeq(a, b) ==
    \/ a[1] < b[1]
    \/ a[1] = b[1] /\ a[2] < b[2]
    \/ a[1] = b[1] /\ a[2] = b[2] /\ a[3] <= b[3]
\* a == a.to_integral_value()
DecIntegral(a) == a[2] = 0 /\ a[3] = 0
\* a hundredth of a >= 0, the digits beyond the tenth place dropped
DecPercent(a) ==
    LET h == (a[1] % 100) * Limb + a[2]
        l == (h % 100) * Limb + a[3]
    IN <<a[1] \div 100, h \div 100, l \div 100>>

\* (a / b).quantize(Decimal('0.0000000001'), rounding=ROUND_HALF_UP) for
\* integers a >= 0 and b > 0: long division, five digits at a time, and the
\* quotient rounded up when twice the remainder reaches the divisor
QuantizedDiv(a, b) ==
    LET r1 == (a % b) * Limb
        r2 == (r1 % b) * Limb
        up == IF 2 * (r2 % b) >= b THEN 1 ELSE 0
    IN DecNorm(a \div b, r1 \div b, r2 \div b + up)

NoLevel == -1                         \* difficulty_level = None
NoOp == "None"                        \* operation = None
NoUser == ""                          \* no user_id in the session
DifficultyLevels == 1..13             \* DifficultyLevel.values
OperationTypes == {"ADD", "SUB", "MUL", "DIV", "PCT"}

\* what index is asked for: ?difficulty= and ?operation=
LevelInputs == {12, 10}
OperationInputs == {NoOp}
\* and what it is asked for when the topic need not be one of the catalog
AnyLevelInputs == {NoLevel, 0, 1, 9, 12, 13, 14}
AnyOperationInputs == {NoOp, "ADD", "SUB", "MUL", "DIV", "PCT", "XYZ"}

\* the operation each level's generator passes to _create_question
LevelOperation(level) ==
    CASE level \in 1..8 -> "MUL"
      [] level \in 9..10 -> "DIV"
      [] level = 11 -> "PCT"
      [] level = 12 -> "ADD"
      [] level = 13 -> "SUB"

\* operand pairs the generator of a level can draw: a sample of its ranges
Operands(level) ==
    CASE level = 1 -> {<<10, 11>>}
      [] level = 2 -> {<<100, 11>>}
      [] level = 3 -> {<<15, 15>>}
      [] level = 4 -> {<<91, 109>>}
      [] level = 5 -> {<<10, 99>>}
      [] level = 6 -> {<<100, 2>>}
      [] level = 7 -> {<<100, 10>>}
      [] level = 8 -> {<<1000, 10>>}
      [] level = 9 -> {<<20, 2>>}
      [] level = 10 -> {<<100, 7>>}
      [] level = 11 -> {<<5, 21>>}
      [] level = 12 -> {<<100, 100>>}
      [] level = 13 -> {<<500, 100>>}

\* QuestionGenerator._create_question: the Question object, not yet saved
create_question(op1, op2, operation, difficulty) ==
    [operation |-> operation, difficulty_level |-> difficulty,
     operand1 |-> Decimal(op1), operand2 |-> Decimal(op2),
     correct_answer |->
        CASE operation = "ADD" -> Decimal(op1 + op2)
          [] operation = "SUB" -> Decimal(op1 - op2)
          [] operation = "MUL" -> Decimal(op1 * op2)
          [] operation = "DIV" -> QuantizedDiv(op1, op2)
          [] operation = "PCT" -> QuantizedDiv(op1 * op2, 100)
          [] OTHER -> Decimal(0)]

\* the questions the generator function of a level can return
LevelGenerator(level) ==
    {create_question(o[1], o[2], LevelOperation(level), level) : o \in Operands(level)}

\* (variant with a slip: the subtraction entry names the addition generator)
OperationGeneratorSlip(operation) ==
    CASE operation = "ADD" -> LevelGenerator(12)
      [] operation = "SUB" -> LevelGenerator(12)
      [] operation = "MUL" -> LevelGenerator(5)
      [] operation = "DIV" -> LevelGenerator(9)
      [] operation = "PCT" -> LevelGenerator(11)
      [] OTHER -> LevelGenerator(1)
\* operation_generators.get(operation, _multiply_by_11_2digit)
OperationGenerator(operation) ==
    CASE operation = "ADD" -> LevelGenerator(12)
      [] operation = "SUB" -> LevelGenerator(13)
      [] operation = "MUL" -> LevelGenerator(5)
      [] operation = "DIV" -> LevelGenerator(9)
      [] operation = "PCT" -> LevelGenerator(11)
      [] OTHER -> LevelGenerator(1)

\* QuestionGenerator.generate: the questions a call can return
generate(difficulty_level, operation) ==
    LET levels == IF difficulty_level = NoLevel /\ operation = NoOp
                  THEN DifficultyLevels
                  ELSE {difficulty_level}
    IN UNION {IF l # NoLevel /\ l \in DifficultyLevels
              THEN LevelGenerator(l)
              ELSE OperationGenerator(operation) : l \in levels}

\* (variant with a slip: the tolerance applies to integral answers as well)
check_answer_inexact(user_answer, correct_answer) ==
    IF correct_answer = Decimal(0) THEN user_answer = Decimal(0)
    ELSE DecLeq(DecTimes(DecAbs(DecSub(user_answer, correct_answer)), 100),
                DecAbs(correct_answer))
\* Answer.check_answer with tolerance_percent = 1; the last case,
\* difference / |correct| * 100 <= 1, is difference * 100 <= |correct|
check_answer(user_answer, correct_answer) ==
    IF correct_answer = Decimal(0) THEN user_answer = Decimal(0)
    ELSE IF DecIntegral(correct_answer) THEN user_answer = correct_answer
    ELSE DecLeq(DecTimes(DecAbs(DecSub(user_answer, correct_answer)), 100),
                DecAbs(correct_answer))

\* (variant with a slip: best_streak is not raised)
update_streak_nobest(profile, is_correct) ==
    IF is_correct
    THEN [profile EXCEPT !.current_streak = @ + 1]
    ELSE [profile EXCEPT !.current_streak = 0]
\* (variant with a slip: an incorrect answer does not end the streak)
update_streak_noreset(profile, is_correct) ==
    IF is_correct
    THEN LET c == profile.current_streak + 1
         IN [profile EXCEPT !.current_streak = c,
                            !.best_streak = IF c > @ THEN c ELSE @]
    ELSE profile
\* UserProfile.update_streak on an in-memory instance (models.py 19-24)
update_streak(profile, is_correct) ==
    IF is_correct
    THEN LET c == profile.current_streak + 1
         IN [profile EXCEPT !.current_streak = c,
                            !.best_streak = IF c > @ THEN c ELSE @]
    ELSE [profile EXCEPT !.current_streak = 0]

\* a request body of check_answer: whether it is JSON at all, its question_id
\* (0: absent or null) and its answer string after .strip(): a number
\* Decimal() parses, a text it does not, or empty (absent as well)
Body(json, question_id, kind, value) ==
    [json |-> json, question_id |-> question_id,
     answer |-> [kind |-> kind, value |-> value]]
NoBody == Body(TRUE, 0, "empty", Decimal(0))

\* the JsonResponse of a request: status and error text
Response(status, error) == [value |-> status, path |-> error]
OkResponse == Response(200, "ok")

\* (variant with a slip: an answer Decimal() cannot parse counts as 0)
ValidateLenient(body, qs) ==
    IF ~body.json THEN Response(400, "Invalid JSON")
    ELSE IF body.question_id = 0 \/ body.answer.kind = "empty"
    THEN Response(400, "Missing question_id or answer")
    ELSE IF body.question_id \notin DOMAIN qs THEN Response(404, "Question not found")
    ELSE OkResponse
\* check_answer, lines 97-122: the response the checks of the body end in,
\* OkResponse when all of them pass
Validate(body, qs) ==
    IF ~body.json THEN Response(400, "Invalid JSON")
    ELSE IF body.question_id = 0 \/ body.answer.kind = "empty"
    THEN Response(400, "Missing question_id or answer")
    ELSE IF body.answer.kind # "number" THEN Response(400, "Invalid number format")
    ELSE IF body.question_id \notin DOMAIN qs THEN Response(404, "Question not found")
    ELSE OkResponse

NoView == [user |-> NoUser, current_streak |-> 0, best_streak |-> 0,
           body |-> NoBody, question |-> 0, user_answer |-> Decimal(0),
           is_correct |-> FALSE]

VARIABLES
    now,        \* the wall clock, timezone.now()
    cards,      \* the trainer_leitnercard table: a set of rows
    nextId,     \* next primary key of the card table
    pc,         \* per worker: where it is in its request
    inst,       \* per worker: the LeitnerCard instance it holds (NoCard: none)
    req,        \* per worker: arguments of the card call under way
    ret,        \* per worker: what the last finished call or request returned
    applied,    \* per card id: the record_answer calls that completed on it
    profiles,   \* the trainer_userprofile table: name -> streak fields
    questions,  \* the trainer_question table, in primary-key order
    answers,    \* the trainer_answer table, in primary-key order
    view        \* per worker: the local variables of check_answer (views.py)

cardVars == <<cards, nextId, inst, req, ret, applied>>
schedVars == <<cards, nextId, inst, req, applied>>
viewVars == <<profiles, questions, answers, view>>
vars == <<now, cards, nextId, pc, inst, req, ret, applied,
          profiles, questions, answers, view>>

NoCard == [id |-> 0, user |-> "", level |-> 0, op |-> "",
           box_number |-> 0, next_review |-> NoTime, last_reviewed |-> NoTime,
           times_correct |-> 0, times_incorrect |-> 0, consecutive_correct |-> 0]

NoReq == [user |-> "", level |-> 0, op |-> "", next_review |-> NoTime,
          is_correct |-> FALSE]
NoRet == [value |-> 0, path |-> "none"]

\* rows of the table with the given unique_together key
RowsFor(rows, user, level, op) ==
    {r \in rows : r.user = user /\ r.level = level /\ r.op = op}

\* (variant with a slip: no unique constraint on the table)
UniqueViolationOff(rows, user, level, op) == FALSE
\* Meta.unique_together: the database refuses a second row with the same key
UniqueViolation(rows, user, level, op) == RowsFor(rows, user, level, op) # {}

\* (variant with a slip: the defaults are applied to a row that was found)
GetRowDefaults(rows, user, level, op) ==
    [(CHOOSE r \in RowsFor(rows, user, level, op) : TRUE) EXCEPT !.box_number = 1]
\* the row a .get(user=, difficulty_level=, operation=) returns
GetRow(rows, user, level, op) == CHOOSE r \in RowsFor(rows, user, level, op) : TRUE

\* (variant with a slip: the UPDATE of box_number is not limited to the row)
SaveWide(rows, card) ==
    {[r EXCEPT !.box_number = card.box_number] : r \in {x \in rows : x.id # card.id}}
       \cup {card}
\* Model.save() of an instance with a primary key: UPDATE of every field
Save(rows, card) == {r \in rows : r.id # card.id} \cup {card}

\* (variant with a slip: Meta.ordering, next_review before box_number)
MetaOrdering(a, b) ==
    \/ a.next_review < b.next_review
    \/ a.next_review = b.next_review /\ a.box_number <= b.box_number
\* .order_by('box_number', 'next_review'): a may come before b
OrderBy(a, b) ==
    \/ a.box_number < b.box_number
    \/ a.box_number = b.box_number /\ a.next_review <= b.next_review

\* the orders in which the database may return the rows S under that ORDER BY
\* (rows equal in both columns come in either order)
RECURSIVE Ordered(_)
Ordered(S) ==
    IF S = {} THEN {<<>>}
    ELSE UNION {{<<m>> \o s : s \in Ordered(S \ {m})} :
                m \in {x \in S : \A y \in S : OrderBy(x, y)}}

\* .filter(user=user, next_review__lte=timezone.now())
DueFilter(rows, user, t) == {r \in rows : r.user = user /\ r.next_review <= t}

NoLimit == 0                          \* limit = None (and limit = 0: "if limit")

\* LeitnerCard.get_due_cards(user, limit) evaluated at clock t: the sequences
\* the queryset can yield
get_due_cards(rows, user, limit, t) ==
    {IF limit # NoLimit THEN SubSeq(s, 1, Min(limit, Len(s))) ELSE s :
       s \in Ordered(DueFilter(rows, user, t))}

\* (variant with a slip: no order_by, the rows come in Meta.ordering)
get_next_card_meta(rows, user, t) ==
    LET due == {r \in rows : r.user = user /\ r.next_review <= t}
    IN IF due = {} THEN {NoCard}
       ELSE {m \in due : \A y \in due : MetaOrdering(m, y)}
\* LeitnerCard.get_next_card_to_review(user) evaluated at clock t: the cards
\* .filter(...).order_by('box_number', 'next_review').first() can return,
\* NoCard for None
get_next_card_to_review(rows, user, t) ==
    LET due == {r \in rows : r.user = user /\ r.next_review <= t}
    IN IF due = {} THEN {NoCard}
       ELSE {m \in due : \A y \in due : OrderBy(m, y)}

\* (variant with a slip: the mapping starts empty, not with a 0 for every box)
get_box_distribution_sparse(rows, user) ==
    LET mine == {r \in rows : r.user = user}
    IN [b \in {r.box_number : r \in mine} |->
          Cardinality({r \in mine : r.box_number = b})]
\* LeitnerCard.get_box_distribution(user): {1: 0, ..., 5: 0}, then for every
\* box_number among the user's rows the entry is set to the count of its group
get_box_distribution(rows, user) ==
    LET mine == {r \in rows : r.user = user}
        counted == {r.box_number : r \in mine}
    IN [b \in {1, 2, 3, 4, 5} \cup counted |->
          IF b \in counted THEN Cardinality({r \in mine : r.box_number = b}) ELSE 0]

\* (variant with a slip: next_review__lt, a card due right now is not counted)
get_due_count_strict(rows, user, t) ==
    Cardinality({r \in rows : r.user = user /\ r.next_review < t})
\* LeitnerCard.get_due_count(user) evaluated at clock t:
\* .filter(user=user, next_review__lte=now).count()
get_due_count(rows, user, t) ==
    Cardinality({r \in rows : r.user = user /\ r.next_review <= t})

\* (variants with a slip: no cap at MAX_BOX; no reset on an incorrect answer;
\* two boxes up on a correct answer)
NextBoxNoCap(box, is_correct) == IF is_correct THEN box + 1 ELSE 1
NextBoxStay(box, is_correct) == IF is_correct THEN Min(box + 1, MAX_BOX) ELSE box
NextBoxSkip(box, is_correct) == IF is_correct THEN Min(box + 2, MAX_BOX) ELSE 1
\* (variant with a slip: box 5 is final, an incorrect answer there keeps it)
NextBoxFinal(box, is_correct) ==
    IF is_correct
    THEN (IF box < MAX_BOX THEN box + 1 ELSE box)
    ELSE (IF box = MAX_BOX THEN box ELSE 1)
\* the box a card moves to (models.py 202-212)
NextBox(box, is_correct) ==
    IF is_correct
    THEN (IF box < MAX_BOX THEN box + 1 ELSE box)
    ELSE 1

\* (variant with a slip: an incorrect answer does not clear consecutive_correct)
MarkedKeepRun(card, is_correct, t1) ==
    [card EXCEPT
       !.last_reviewed = t1,
       !.times_correct = IF is_correct THEN @ + 1 ELSE @,
       !.times_incorrect = IF is_correct THEN @ ELSE @ + 1,
       !.consecutive_correct = IF is_correct THEN @ + 1 ELSE @,
       !.box_number = NextBox(card.box_number, is_correct)]
\* record_answer, lines 200-212, on an in-memory instance: t1 is the clock at
\* line 200
Marked(card, is_correct, t1) ==
    [card EXCEPT
       !.last_reviewed = t1,
       !.times_correct = IF is_correct THEN @ + 1 ELSE @,
       !.times_incorrect = IF is_correct THEN @ ELSE @ + 1,
       !.consecutive_correct = IF is_correct THEN @ + 1 ELSE 0,
       !.box_number = NextBox(card.box_number, is_correct)]
\* record_answer, lines 215-216, on an in-memory instance: t2 is the clock at
\* line 216
Scheduled(card, t2) ==
    [card EXCEPT !.next_review = t2 + timedelta(BOX_INTERVALS(card.box_number))]
\* the instance record_answer saves: lines 200-216 with the two clock readings
Answered(card, is_correct, t1, t2) == Scheduled(Marked(card, is_correct, t1), t2)

\* LeitnerCard.is_due at clock t
is_due(card, t) == card.next_review <= t

\* (variant with a slip: a new card gets a day of grace before its first review)
NewCardGrace(id, r) ==
    [id |-> id, user |-> r.user, level |-> r.level, op |-> r.op,
     box_number |-> 1, next_review |-> r.next_review + timedelta(1),
     last_reviewed |-> NoTime,
     times_correct |-> 0, times_incorrect |-> 0, consecutive_correct |-> 0]
\* the row objects.create(...) inserts: the defaults of get_or_create_card
\* and the field defaults of the model
NewCard(id, r) ==
    [id |-> id, user |-> r.user, level |-> r.level, op |-> r.op,
     box_number |-> 1, next_review |-> r.next_review, last_reviewed |-> NoTime,
     times_correct |-> 0, times_incorrect |-> 0, consecutive_correct |-> 0]

TotalApplied == LET ids == DOMAIN applied
                    RECURSIVE Sum(_)
                    Sum(S) == IF S = {} THEN 0
                              ELSE LET x == CHOOSE x \in S : TRUE
                                   IN applied[x].correct + applied[x].incorrect + Sum(S \ {x})
                IN Sum(ids)

Init ==
    /\ now = 0
    /\ cards = {}
    /\ nextId = 1
    /\ pc = [p \in Procs |-> "idle"]
    /\ inst = [p \in Procs |-> NoCard]
    /\ req = [p \in Procs |-> NoReq]
    /\ ret = [p \in Procs |-> NoRet]
    /\ applied = <<>>
    /\ profiles = [u \in Users |-> [current_streak |-> 0, best_streak |-> 0]]
    /\ questions = <<>>
    /\ answers = <<>>
    /\ view = [p \in Procs |-> NoView]

\* the clock advances
Tick(L) ==
    /\ \E k \in 1..L.ticks : now + k <= L.ticks /\ now' = now + k
    /\ UNCHANGED <<cards, nextId, pc, inst, req, ret, applied>>
    /\ UNCHANGED viewVars

\* get_or_create_card, first query: the defaults are evaluated (the clock is
\* read), then .get() either finds the row or raises DoesNotExist
GocGet(p, user, level, op) ==
    /\ pc[p] = "idle"
    /\ IF RowsFor(cards, user, level, op) # {}
       THEN /\ inst' = [inst EXCEPT ![p] = GetRow(cards, user, level, op)]
            /\ pc' = [pc EXCEPT ![p] = "holding"]
            /\ ret' = [ret EXCEPT ![p] = [value |-> GetRow(cards, user, level, op).id,
                                          path |-> "found"]]
            /\ UNCHANGED req
       ELSE /\ req' = [req EXCEPT ![p] = [NoReq EXCEPT !.user = user, !.level = level,
                                                 !.op = op, !.next_review = now]]
            /\ pc' = [pc EXCEPT ![p] = "goc_create"]
            /\ UNCHANGED <<inst, ret>>
    /\ UNCHANGED <<now, cards, nextId, applied>>
    /\ UNCHANGED viewVars

\* get_or_create_card, after DoesNotExist: INSERT; the database refuses it
\* with IntegrityError when a row of the key is there (the unique_together
\* constraint)
GocCreate(p) ==
    /\ pc[p] = "goc_create"
    /\ LET r == req[p] IN
       IF UniqueViolation(cards, r.user, r.level, r.op)
       THEN /\ pc' = [pc EXCEPT ![p] = "goc_refetch"]
            /\ UNCHANGED <<cards, nextId, inst, req, ret, applied>>
       ELSE /\ cards' = cards \cup {NewCard(nextId, r)}
            /\ inst' = [inst EXCEPT ![p] = NewCard(nextId, r)]
            /\ ret' = [ret EXCEPT ![p] = [value |-> nextId, path |-> "created"]]
            /\ applied' = applied @@ (nextId :> [correct |-> 0, incorrect |-> 0])
            /\ nextId' = nextId + 1
            /\ pc' = [pc EXCEPT ![p] = "holding"]
            /\ req' = [req EXCEPT ![p] = NoReq]
    /\ UNCHANGED now
    /\ UNCHANGED viewVars

\* get_or_create_card, after IntegrityError: the row that is there is
\* fetched with a second .get()
GocRefetch(p) ==
    /\ pc[p] = "goc_refetch"
    /\ LET r == req[p] IN
       /\ RowsFor(cards, r.user, r.level, r.op) # {}
       /\ inst' = [inst EXCEPT ![p] = GetRow(cards, r.user, r.level, r.op)]
       /\ ret' = [ret EXCEPT ![p] = [value |-> GetRow(cards, r.user, r.level, r.op).id,
                                     path |-> "conflict"]]
    /\ pc' = [pc EXCEPT ![p] = "holding"]
    /\ req' = [req EXCEPT ![p] = NoReq]
    /\ UNCHANGED <<now, cards, nextId, applied>>
    /\ UNCHANGED viewVars

\* record_answer calls that have started and not yet saved
RecordsInFlight == Cardinality({q \in Procs : pc[q] \in {"ra_interval", "ra_save"}})

\* record_answer(is_correct) on the instance the worker holds, lines 200-212:
\* the clock is read, the counters and the box of the instance are set
RecordAnswer(p, is_correct, L) ==
    /\ pc[p] = "holding"
    /\ TotalApplied + RecordsInFlight < L.answers
    /\ inst' = [inst EXCEPT ![p] = Marked(inst[p], is_correct, now)]
    /\ req' = [req EXCEPT ![p] = [NoReq EXCEPT !.is_correct = is_correct]]
    /\ pc' = [pc EXCEPT ![p] = "ra_interval"]
    /\ UNCHANGED <<now, cards, nextId, ret, applied>>
    /\ UNCHANGED viewVars

\* record_answer, lines 215-216: the clock is read again for next_review
RaInterval(p) ==
    /\ pc[p] = "ra_interval"
    /\ inst' = [inst EXCEPT ![p] = Scheduled(inst[p], now)]
    /\ pc' = [pc EXCEPT ![p] = "ra_save"]
    /\ UNCHANGED <<now, cards, nextId, req, ret, applied>>
    /\ UNCHANGED viewVars

\* record_answer, lines 217-219: the instance is saved and its box returned
RaSave(p) ==
    /\ pc[p] = "ra_save"
    /\ cards' = Save(cards, inst[p])
    /\ ret' = [ret EXCEPT ![p] = [value |-> inst[p].box_number, path |-> "none"]]
    /\ applied' = [applied EXCEPT ![inst[p].id] =
                     IF req[p].is_correct THEN [@ EXCEPT !.correct = @ + 1]
                                          ELSE [@ EXCEPT !.incorrect = @ + 1]]
    /\ req' = [req EXCEPT ![p] = NoReq]
    /\ pc' = [pc EXCEPT ![p] = "holding"]
    /\ UNCHANGED <<now, nextId, inst>>
    /\ UNCHANGED viewVars

\* the request ends: the instance is dropped
Release(p) ==
    /\ pc[p] = "holding"
    /\ pc' = [pc EXCEPT ![p] = "idle"]
    /\ inst' = [inst EXCEPT ![p] = NoCard]
    /\ ret' = [ret EXCEPT ![p] = NoRet]
    /\ UNCHANGED <<now, cards, nextId, req, applied>>
    /\ UNCHANGED viewVars

\* ------------------------------------------------------------ views.py
\* index requests that have loaded their learner and not yet saved a question
IndexInFlight == Cardinality({q \in Procs : pc[q] = "ix_save"})

\* index, lines 54-56: get_current_user loads the learner's profile; with no
\* learner selected the request ends in a redirect
IndexLoad(p, sess, L) ==
    /\ pc[p] = "idle"
    /\ IF sess \notin DOMAIN profiles
       THEN /\ ret' = [ret EXCEPT ![p] = Response(302, "select_user")]
            /\ UNCHANGED <<pc, view>>
       ELSE /\ Len(questions) + IndexInFlight < L.questions
            /\ view' = [view EXCEPT ![p] = [NoView EXCEPT
                           !.user = sess,
                           !.current_streak = profiles[sess].current_streak,
                           !.best_streak = profiles[sess].best_streak]]
            /\ pc' = [pc EXCEPT ![p] = "ix_save"]
            /\ ret' = [ret EXCEPT ![p] = NoRet]
    /\ UNCHANGED <<now, profiles, questions, answers>>
    /\ UNCHANGED schedVars

\* index, lines 58-86: ?difficulty= and ?operation= are read, a question is
\* generated and saved, and the page is rendered
Index(p, difficulty, operation) ==
    /\ pc[p] = "ix_save"
    /\ \E q \in generate(difficulty, operation) : questions' = Append(questions, q)
    /\ ret' = [ret EXCEPT ![p] = OkResponse]
    /\ pc' = [pc EXCEPT ![p] = "idle"]
    /\ view' = [view EXCEPT ![p] = NoView]
    /\ UNCHANGED <<now, profiles, answers>>
    /\ UNCHANGED schedVars

\* check_answer, line 93: get_current_user loads the learner's profile
CaLoadUser(p, sess, L) ==
    /\ pc[p] = "idle"
    /\ IF sess \notin DOMAIN profiles
       THEN /\ ret' = [ret EXCEPT ![p] = Response(401, "No user selected")]
            /\ UNCHANGED <<pc, view>>
       ELSE /\ Len(answers)
                  + Cardinality({q \in Procs : pc[q] \in {"ca_parse", "ca_store"}})
                  < L.submissions
            /\ view' = [view EXCEPT ![p] = [NoView EXCEPT
                           !.user = sess,
                           !.current_streak = profiles[sess].current_streak,
                           !.best_streak = profiles[sess].best_streak]]
            /\ pc' = [pc EXCEPT ![p] = "ca_parse"]
            /\ ret' = [ret EXCEPT ![p] = NoRet]
    /\ UNCHANGED <<now, profiles, questions, answers>>
    /\ UNCHANGED schedVars

\* check_answer, lines 97-125: the body is parsed and checked, which ends the
\* request with an error response, or the question is fetched and the answer
\* judged
CaParse(p, body) ==
    /\ pc[p] = "ca_parse"
    /\ IF Validate(body, questions) # OkResponse
       THEN /\ ret' = [ret EXCEPT ![p] = Validate(body, questions)]
            /\ view' = [view EXCEPT ![p] = NoView]
            /\ pc' = [pc EXCEPT ![p] = "idle"]
       ELSE /\ view' = [view EXCEPT ![p] = [@ EXCEPT
                           !.body = body,
                           !.question = body.question_id,
                           !.user_answer = body.answer.value,
                           !.is_correct =
                               check_answer(body.answer.value,
                                            questions[body.question_id].correct_answer)]]
            /\ pc' = [pc EXCEPT ![p] = "ca_store"]
            /\ UNCHANGED ret
    /\ UNCHANGED <<now, profiles, questions, answers>>
    /\ UNCHANGED schedVars

\* check_answer, lines 128-136: the Answer row is inserted
CaStore(p) ==
    /\ pc[p] = "ca_store"
    /\ answers' = Append(answers, [question |-> view[p].question, user |-> view[p].user,
                                    user_answer |-> view[p].user_answer,
                                    is_correct |-> view[p].is_correct])
    /\ pc' = [pc EXCEPT ![p] = "ca_streak"]
    /\ UNCHANGED <<now, profiles, questions, view>>
    /\ UNCHANGED cardVars

\* check_answer, line 139: update_streak changes the loaded profile and
\* saves every field of it; the response follows
CaStreak(p) ==
    /\ pc[p] = "ca_streak"
    /\ LET mine == [current_streak |-> view[p].current_streak,
                    best_streak |-> view[p].best_streak]
       IN profiles' = [profiles EXCEPT ![view[p].user] =
                          update_streak(mine, view[p].is_correct)]
    /\ pc' = [pc EXCEPT ![p] = "idle"]
    /\ view' = [view EXCEPT ![p] = NoView]
    /\ ret' = [ret EXCEPT ![p] = OkResponse]
    /\ UNCHANGED <<now, questions, answers>>
    /\ UNCHANGED schedVars

\* the answers a client submits to a question: exact, or off by a thousandth
Submitted(q) == {q.correct_answer, DecAdd(q.correct_answer, Thousandth)}

\* the bodies a client posts that pass every check of check_answer
ValidBodies(qs) ==
    UNION {{Body(TRUE, i, "number", a) : a \in Submitted(qs[i])} : i \in DOMAIN qs}
\* and bodies that fail one: not JSON, no question_id, no answer, an answer
\* that is not a number, the id of no question
BadBodies(qs) ==
    {Body(FALSE, 0, "empty", Decimal(0)), Body(TRUE, 0, "number", Decimal(0)),
     Body(TRUE, 1, "empty", Decimal(0)), Body(TRUE, 1, "text", Decimal(0)),
     Body(TRUE, Len(qs) + 1, "number", Decimal(0))}

\* question rows whose answers are 0, 20, 50, 0.5, 25.25, 14.2857142857 and
\* 14.4285714286: the first and the fourth as entered through the admin
\* site, the others as generated
JudgedQuestions ==
    {create_question(5, 5, "SUB", 13), create_question(40, 2, "DIV", 9),
     create_question(100, 2, "DIV", 9), create_question(1, 2, "DIV", 9),
     create_question(101, 4, "DIV", 10), create_question(100, 7, "DIV", 10),
     create_question(101, 7, "DIV", 10)}
\* answers a client submits to them: exact, off by the last place, by 0.001
\* and by 0.01, at one percent off and just beyond, 0, and 14.143 and 14.573
JudgedAnswers(q) ==
    LET c == q.correct_answer
        percent == DecPercent(c)
    IN {c, DecAdd(c, Quantum), DecSub(c, Quantum), DecAdd(c, Hundredth),
        DecAdd(c, percent), DecAdd(DecAdd(c, percent), Quantum),
        DecAdd(DecAdd(c, percent), Thousandth),
        DecAdd(DecAdd(c, percent), Hundredth),
        DecSub(c, percent), DecSub(DecSub(c, percent), Quantum),
        Decimal(0), <<14, 14300, 0>>, <<14, 57300, 0>>}
JudgedBodies(qs) ==
    UNION {{Body(TRUE, i, "number", a) : a \in JudgedAnswers(qs[i])} : i \in DOMAIN qs}

\* the part of the state space a specification explores
Limits(ticks, nanswers) == [ticks |-> ticks, answers |-> nanswers]
ViewLimits(nquestions, nsubmissions) ==
    [questions |-> nquestions, submissions |-> nsubmissions]

\* the card keys (user, difficulty_level, operation) the specifications use
ArthurAdd == <<"Arthur", 12, "ADD">>
ArthurMul == <<"Arthur", 1, "MUL">>
LenaAdd == <<"Lena", 12, "ADD">>

\* the requests of the workers P for the cards with keys in K
NextOn(P, K, L) ==
    \/ Tick(L)
    \/ \E p \in P, k \in K : GocGet(p, k[1], k[2], k[3])
    \/ \E p \in P : GocCreate(p)
    \/ \E p \in P, c \in BOOLEAN : RecordAnswer(p, c, L)
    \/ \E p \in P : RaInterval(p)
    \/ \E p \in P : RaSave(p)
    \/ \E p \in P : Release(p)

\* the same for workers that race: an INSERT of get_or_create_card can be
\* refused, which one worker on its own never meets
NextRacing(P, K, L) ==
    \/ NextOn(P, K, L)
    \/ \E p \in P : GocRefetch(p)

\* two workers, two topics of one learner
Next == NextRacing(Procs, {ArthurAdd, ArthurMul}, Limits(MaxTicks, MaxAnswers))
Spec == Init /\ [][Next]_vars

\* two workers that fetch or create the cards of two topics of one learner,
\* with one answer recorded
NextRace == NextRacing(Procs, {ArthurAdd, ArthurMul}, Limits(RaceTicks, RaceAnswers))
SpecRace == Init /\ [][NextRace]_vars

\* one worker answering one card many times
NextDeep == NextOn({1}, {ArthurAdd}, Limits(DeepTicks, DeepAnswers))
SpecDeep == Init /\ [][NextDeep]_vars

\* one worker, two cards of one learner and one of another
NextDue == NextOn({1}, {ArthurAdd, ArthurMul, LenaAdd}, Limits(DueTicks, DueAnswers))
SpecDue == Init /\ [][NextDue]_vars

\* the web requests of the workers P with the session users S: index and
\* check_answer, with bodies that pass its checks and, if malformed is set,
\* bodies that do not
NextViewOn(P, S, malformed, L) ==
    \/ \E p \in P, u \in S : IndexLoad(p, u, L)
    \/ \E p \in P, d \in LevelInputs, o \in OperationInputs : Index(p, d, o)
    \/ \E p \in P, u \in S : CaLoadUser(p, u, L)
    \/ \E p \in P :
          \E b \in ValidBodies(questions)
                    \cup (IF malformed THEN BadBodies(questions) ELSE {}) : CaParse(p, b)
    \/ \E p \in P : CaStore(p)
    \/ \E p \in P : CaStreak(p)

\* two workers, every request well-formed
NextView == NextViewOn(Procs, Users, FALSE, ViewLimits(MaxQuestions, MaxSubmissions))
SpecView == Init /\ [][NextView]_vars

\* two workers, requests with and without a selected user and a proper body
NextReject == NextViewOn(Procs, {"Arthur", NoUser}, TRUE,
                         ViewLimits(RejectQuestions, RejectSubmissions))
SpecReject == Init /\ [][NextReject]_vars

\* one worker that reviews cards of two learners and serves their answer
\* submissions to a question that index has generated
InitFrame ==
    /\ now = 0
    /\ cards = {}
    /\ nextId = 1
    /\ pc = [p \in Procs |-> "idle"]
    /\ inst = [p \in Procs |-> NoCard]
    /\ req = [p \in Procs |-> NoReq]
    /\ ret = [p \in Procs |-> NoRet]
    /\ applied = <<>>
    /\ profiles = [u \in Users |-> [current_streak |-> 0, best_streak |-> 0]]
    /\ \E q \in generate(12, NoOp) : questions = <<q>>
    /\ answers = <<>>
    /\ view = [p \in Procs |-> NoView]
NextFrame ==
    \/ \E k \in {ArthurAdd, ArthurMul, LenaAdd} : GocGet(1, k[1], k[2], k[3])
    \/ GocCreate(1)
    \/ \E c \in BOOLEAN : RecordAnswer(1, c, Limits(FrameTicks, FrameAnswers))
    \/ RaInterval(1)
    \/ RaSave(1)
    \/ Release(1)
    \/ \E u \in Users : CaLoadUser(1, u, ViewLimits(1, FrameSubmissions))
    \/ \E b \in ValidBodies(questions) : CaParse(1, b)
    \/ CaStore(1)
    \/ CaStreak(1)
SpecFrame == InitFrame /\ [][NextFrame]_vars

\* two workers serving the answer submissions of two learners to questions of
\* two topics, the submissions of one learner one at a time
InitSeq ==
    /\ now = 0
    /\ cards = {}
    /\ nextId = 1
    /\ pc = [p \in Procs |-> "idle"]
    /\ inst = [p \in Procs |-> NoCard]
    /\ req = [p \in Procs |-> NoReq]
    /\ ret = [p \in Procs |-> NoRet]
    /\ applied = <<>>
    /\ profiles = [u \in Users |-> [current_streak |-> 0, best_streak |-> 0]]
    /\ \E q1 \in generate(12, NoOp), q2 \in generate(13, NoOp) : questions = <<q1, q2>>
    /\ answers = <<>>
    /\ view = [p \in Procs |-> NoView]
NextSeq ==
    \/ \E p \in Procs, u \in Users :
          /\ \A q \in Procs : view[q].user # u
          /\ CaLoadUser(p, u, ViewLimits(2, SeqSubmissions))
    \/ \E p \in Procs : \E b \in ValidBodies(questions) : CaParse(p, b)
    \/ \E p \in Procs : CaStore(p)
    \/ \E p \in Procs : CaStreak(p)
SpecSeq == InitSeq /\ [][NextSeq]_vars

\* one worker serving index for any ?difficulty= and ?operation=
NextGen ==
    \/ IndexLoad(1, "Arthur", ViewLimits(GenQuestions, 0))
    \/ \E d \in AnyLevelInputs, o \in AnyOperationInputs : Index(1, d, o)
SpecGen == Init /\ [][NextGen]_vars

\* one worker judging submissions to one question that is in the table
InitAnswer ==
    /\ now = 0
    /\ cards = {}
    /\ nextId = 1
    /\ pc = [p \in Procs |-> "idle"]
    /\ inst = [p \in Procs |-> NoCard]
    /\ req = [p \in Procs |-> NoReq]
    /\ ret = [p \in Procs |-> NoRet]
    /\ applied = <<>>
    /\ profiles = [u \in Users |-> [current_streak |-> 0, best_streak |-> 0]]
    /\ \E q \in JudgedQuestions : questions = <<q>>
    /\ answers = <<>>
    /\ view = [p \in Procs |-> NoView]
NextAnswer ==
    \/ CaLoadUser(1, "Arthur", ViewLimits(1, AnswerSubmissions))
    \/ \E b \in JudgedBodies(questions) : CaParse(1, b)
    \/ CaStore(1)
    \/ CaStreak(1)
SpecAnswer == InitAnswer /\ [][NextAnswer]_vars

\* =================================================================== claims
Key(r) == <<r.user, r.level, r.op>>
\* worker p holds a card instance between two calls
Holding(p) == pc[p] = "holding"
\* worker p holds a card instance, between two calls or in a record_answer call
HasCard(p) == pc[p] \in {"holding", "ra_interval", "ra_save"}
\* the steps of a record_answer call of worker p: lines 200-212, lines 215-216
\* and lines 217-219
MarkStep(p) == pc[p] = "holding" /\ pc'[p] = "ra_interval"
IntervalStep(p) == pc[p] = "ra_interval" /\ pc'[p] = "ra_save"
SaveStep(p) == pc[p] = "ra_save" /\ pc'[p] = "holding"

\* C1: every card row, and every card instance a worker holds, has
\* 1 <= box_number <= 5 in every reachable state, whatever answers were recorded.
C1_BoxInRange ==
    /\ \A r \in cards : r.box_number \in 1..MAX_BOX
    /\ \A p \in Procs : HasCard(p) => inst[p].box_number \in 1..MAX_BOX
\* a card that fell back to box 1 and climbed to box 5 again
C1_Witness ==
    \E r \in cards : r.box_number = MAX_BOX /\ r.times_incorrect >= 1

\* the boxes a card created in box `box` can be in after c correct and i
\* incorrect answers applied one after the other, in any order
RECURSIVE SerialBoxes(_, _, _)
SerialBoxes(box, c, i) ==
    IF c = 0 /\ i = 0 THEN {box}
    ELSE (IF c > 0 THEN SerialBoxes(NextBox(box, TRUE), c - 1, i) ELSE {})
         \cup (IF i > 0 THEN SerialBoxes(NextBox(box, FALSE), c, i - 1) ELSE {})

\* C2: no record_answer call is lost: each card's times_correct and
\* times_incorrect count every call that completed on it, and its box is the
\* result of those transitions applied in some serial order.
C2_NoLostUpdate ==
    \A r \in cards :
       /\ r.times_correct = applied[r.id].correct
       /\ r.times_incorrect = applied[r.id].incorrect
       /\ r.box_number \in SerialBoxes(1, applied[r.id].correct, applied[r.id].incorrect)

\* C3: at most one card row per (user, difficulty_level, operation), and the
\* instance get_or_create_card hands a worker is the stored row of its key,
\* also when two calls for the key race.
C3_OneCardPerKey ==
    /\ \A r1, r2 \in cards : Key(r1) = Key(r2) => r1 = r2
    /\ \A p \in Procs : HasCard(p) =>
          \E r \in cards : r.id = inst[p].id /\ Key(r) = Key(inst[p])
    /\ \A p, q \in Procs :
          HasCard(p) /\ HasCard(q) /\ Key(inst[p]) = Key(inst[q]) => inst[p].id = inst[q].id
\* two workers raced: one created the row, the other hit the constraint, and
\* both hold the same card
C3_Witness ==
    \E p, q \in Procs :
       /\ p # q /\ Holding(p) /\ Holding(q)
       /\ ret[p].path = "conflict" /\ ret[q].path = "created"
       /\ inst[p].id = inst[q].id

\* C4: every result of get_due_cards(user) holds exactly the user's cards with
\* next_review <= now, each once, by box_number ascending and then
\* next_review ascending.
C4_DueCardsOrdered ==
    \A u \in Users :
       /\ get_due_cards(cards, u, NoLimit, now) # {}
       /\ \A s \in get_due_cards(cards, u, NoLimit, now) :
             /\ {s[i] : i \in 1..Len(s)} =
                   {r \in cards : r.user = u /\ r.next_review <= now}
             /\ \A i, j \in 1..Len(s) : i < j =>
                   /\ s[i] # s[j]
                   /\ s[i].box_number <= s[j].box_number
                   /\ s[i].box_number = s[j].box_number =>
                          s[i].next_review <= s[j].next_review
\* a due box-1 card is served before a longer overdue box-2 card, while
\* another learner has a due card and the learner a card that is not due
C4_Witness ==
    \E u \in Users : \E s \in get_due_cards(cards, u, NoLimit, now) :
       /\ Len(s) >= 2
       /\ s[1].box_number < s[2].box_number
       /\ s[1].next_review > s[2].next_review
       /\ \E r \in cards : r.user # u /\ r.next_review <= now

\* an Answer row whose request has returned its response
Completed(i) ==
    \A p \in Procs : ~(pc[p] = "ca_streak" /\ view[p].user = answers[i].user
                        /\ view[p].question = answers[i].question)

\* C5: every accepted submission moves the learner's card of the question's
\* topic: the card exists and has an answer recorded, and after a learner's
\* first submission, a correct one, it is in box 2 with current_streak = 1.
C5_SubmissionMovesCard ==
    \A i \in DOMAIN answers : Completed(i) =>
       \E r \in cards :
          /\ r.user = answers[i].user
          /\ r.level = questions[answers[i].question].difficulty_level
          /\ r.op = questions[answers[i].question].operation
          /\ r.times_correct + r.times_incorrect >= 1
          /\ (Len(answers) = 1 /\ answers[i].is_correct) =>
                /\ r.box_number = 2
                /\ r.next_review = r.last_reviewed + timedelta(1)
                /\ profiles[r.user].current_streak = 1

\* C6: after every record_answer, next_review - last_reviewed is exactly the
\* interval of the card's box.
C6_ExactInterval ==
    \A r \in cards : r.last_reviewed # NoTime =>
       r.next_review - r.last_reviewed = timedelta(BOX_INTERVALS(r.box_number))

\* the row of the card table with primary key id, after the step
RowAfter(id) == CHOOSE r \in cards' : r.id = id

\* C7: a record_answer(False) call leaves the instance and its saved row in
\* box 1 with consecutive_correct = 0 and returns 1, whatever the box and the
\* counters were: lines 200-212 set both on the instance, lines 215-216 keep
\* them, and line 217 saves them.
C7_IncorrectResets ==
    [][\A p \in Procs :
         /\ (MarkStep(p) /\ ~req'[p].is_correct) =>
               /\ inst'[p].times_incorrect = inst[p].times_incorrect + 1
               /\ inst'[p].box_number = 1
               /\ inst'[p].consecutive_correct = 0
         /\ (IntervalStep(p) /\ ~req[p].is_correct) =>
               /\ inst'[p].box_number = 1
               /\ inst'[p].consecutive_correct = 0
         /\ (SaveStep(p) /\ ~req[p].is_correct) =>
               /\ inst'[p].box_number = 1
               /\ inst'[p].consecutive_correct = 0
               /\ ret'[p].value = 1
               /\ RowAfter(inst[p].id).box_number = 1
               /\ RowAfter(inst[p].id).consecutive_correct = 0]_vars
\* an incorrect answer given in box 5: four correct answers, then the one
\* incorrect answer, which returned 1
C7_Witness ==
    \E p \in Procs :
       /\ Holding(p) /\ ret[p].value = 1 /\ ret[p].path = "none"
       /\ inst[p].times_correct = 4 /\ inst[p].times_incorrect = 1
       /\ inst[p].box_number = 1

\* C8: a record_answer(True) call on a card in box b leaves the instance and
\* its saved row in box min(b + 1, 5) and returns that box; from box 5 the
\* card stays in box 5: lines 200-212 set the box of the instance, lines
\* 215-216 keep it, and line 217 saves and line 219 returns it.
C8_CorrectAdvances ==
    [][\A p \in Procs :
         /\ (MarkStep(p) /\ req'[p].is_correct) =>
               /\ inst'[p].times_correct = inst[p].times_correct + 1
               /\ inst'[p].box_number = Min(inst[p].box_number + 1, 5)
               /\ inst[p].box_number = 5 => inst'[p].box_number = 5
         /\ IntervalStep(p) => inst'[p].box_number = inst[p].box_number
         /\ (SaveStep(p) /\ req[p].is_correct) =>
               /\ inst'[p].box_number = inst[p].box_number
               /\ ret'[p].value = inst[p].box_number
               /\ RowAfter(inst[p].id).box_number = inst[p].box_number]_vars
\* a fifth correct answer in a row: it was given in box 5
C8_Witness ==
    \E p \in Procs :
       /\ Holding(p) /\ ret[p].path = "none" /\ ret[p].value = 5
       /\ inst[p].consecutive_correct >= 5 /\ inst[p].box_number = 5

\* C9: a get_or_create_card call that returns when a card of its key is
\* stored returns that very row, adds no row and changes no field of any
\* row; and no step changes the id or the key of a stored row, so a second
\* call returns the card the first did.
C9_GetOrCreateIdempotent ==
    [][/\ \A p \in Procs :
            (pc[p] \in {"idle", "goc_create", "goc_refetch"} /\ pc'[p] = "holding") =>
               /\ RowsFor(cards', inst'[p].user, inst'[p].level, inst'[p].op) = {inst'[p]}
               /\ RowsFor(cards, inst'[p].user, inst'[p].level, inst'[p].op) # {} =>
                     /\ cards' = cards
                     /\ nextId' = nextId
                     /\ inst'[p] \in cards
       /\ \A p \in Procs :
            (pc[p] = "goc_create" /\ pc'[p] = "goc_refetch") =>
               cards' = cards /\ nextId' = nextId
       /\ \A r \in cards : \E r2 \in cards' : r2.id = r.id /\ Key(r2) = Key(r)]_vars
\* a call found a card that had left its creation state (box 2, one correct
\* answer, a review date) and returned it as it is stored
C9_Witness ==
    \E p \in Procs :
       /\ Holding(p) /\ ret[p].path = "found"
       /\ inst[p].box_number = 2 /\ inst[p].times_correct = 1
       /\ inst[p] \in cards
       /\ Cardinality(cards) >= 2

\* C10: best_streak >= current_streak >= 0 in every profile row and in every
\* profile instance a check_answer request holds, also while two requests of
\* one learner are under way.
C10_StreakOrder ==
    /\ \A u \in DOMAIN profiles :
          profiles[u].best_streak >= profiles[u].current_streak
          /\ profiles[u].current_streak >= 0
    /\ \A p \in Procs :
          view[p].best_streak >= view[p].current_streak /\ view[p].current_streak >= 0
\* two requests of one learner are about to update the streak, one of them
\* from a copy of the profile that another request has changed since
C10_Witness ==
    \E p, q \in Procs :
       /\ p # q /\ pc[p] = "ca_streak" /\ pc[q] = "ca_streak"
       /\ view[p].user = view[q].user
       /\ view[p].current_streak # profiles[view[p].user].current_streak
       /\ profiles[view[p].user].best_streak >= 1

Max(a, b) == IF a >= b THEN a ELSE b

\* the step in which worker p runs update_streak and saves the profile
StreakStep(p) == pc[p] = "ca_streak" /\ pc'[p] = "idle"

\* C11: an update_streak(True) call raises the current_streak of the profile
\* it runs on by exactly 1 and sets best_streak to the larger of best_streak
\* and the new current_streak; update_streak(False) sets current_streak to 0
\* and keeps best_streak; the saved row holds the result; and the best_streak
\* of no stored profile ever decreases, over any sequence of calls.
C11_UpdateStreak ==
    [][/\ \A p \in Procs : StreakStep(p) =>
            LET before == view[p]
                after == profiles'[view[p].user]
            IN /\ before.is_correct =>
                     /\ after.current_streak = before.current_streak + 1
                     /\ after.best_streak = Max(before.best_streak, after.current_streak)
               /\ ~before.is_correct =>
                     /\ after.current_streak = 0
                     /\ after.best_streak = before.best_streak
       /\ \A u \in DOMAIN profiles :
            profiles'[u].best_streak >= profiles[u].best_streak]_vars

\* C12: get_next_card_to_review(user) returns what get_due_cards(user,
\* limit=1) has as its first element, and None exactly when the user has no
\* card with next_review <= now.
C12_NextCardIsFirstDue ==
    \A u \in Users :
       /\ get_next_card_to_review(cards, u, now) =
             {IF Len(s) = 0 THEN NoCard ELSE s[1] : s \in get_due_cards(cards, u, 1, now)}
       /\ NoCard \in get_next_card_to_review(cards, u, now) <=>
             ~\E r \in cards : r.user = u /\ r.next_review <= now
\* a learner whose next card is a box-1 card although a box-2 card has been
\* due for longer, while the other learner has no due card and gets None
C12_Witness ==
    \E u, u2 \in Users : \E r, r2 \in cards :
       /\ get_next_card_to_review(cards, u, now) = {r}
       /\ r.box_number = 1
       /\ r2.user = u /\ r2.box_number = 2 /\ r2.next_review < r.next_review
       /\ r2.next_review <= now
       /\ u2 # u /\ get_next_card_to_review(cards, u2, now) = {NoCard}

\* a body check_answer has to reject
Malformed(b) ==
    \/ ~b.json
    \/ b.question_id = 0
    \/ b.answer.kind # "number"
    \/ b.question_id \notin DOMAIN questions

\* C13: a rejected check_answer request changes no state: the step that
\* answers 401, 400 or 404 (no user selected, missing question_id or answer,
\* answer not a number, unknown question, invalid JSON) leaves the Answer,
\* profile, card and question tables as they are; no request without a user
\* or with such a body reaches the steps that write; and only those steps
\* change the Answer and profile tables.
C13_RejectedChangesNothing ==
    [][/\ \A p \in Procs :
            (ret'[p] # ret[p] /\ ret'[p].value \in {400, 401, 404}) =>
               /\ answers' = answers /\ profiles' = profiles
               /\ cards' = cards /\ questions' = questions
       /\ \A p \in Procs :
            pc'[p] \in {"ca_store", "ca_streak"} =>
               ~Malformed(view'[p].body) /\ view'[p].user \in DOMAIN profiles
       /\ (answers' # answers \/ profiles' # profiles) =>
             \E p \in Procs : pc[p] \in {"ca_store", "ca_streak"} /\ pc'[p] # pc[p]
       /\ cards' = cards]_vars
\* one request was rejected for an answer that is not a number and one for
\* an unknown question, after a submission had been stored and had raised
\* the learner's streak
C13_Witness ==
    /\ ret[1] = Response(400, "Invalid number format")
    /\ ret[2] = Response(404, "Question not found")
    /\ Len(answers) >= 1
    /\ \E u \in DOMAIN profiles : profiles[u].best_streak >= 1

\* a worker that has judged the answer s against the correct answer c
Judged(p, s, c) ==
    /\ pc[p] \in {"ca_store", "ca_streak"}
    /\ view[p].user_answer = s
    /\ questions[view[p].question].correct_answer = c

\* the three-case rule
Rule(s, c) ==
    IF c = Decimal(0) THEN s = Decimal(0)
    ELSE IF c[2] = 0 /\ c[3] = 0 THEN s = c
    ELSE DecLeq(DecTimes(DecAbs(DecSub(s, c)), 100), DecAbs(c))

\* C14 (as claimed): every submission is judged by the three-case rule; 20.01
\* against 20 is rejected; 50.5 against 50 is accepted and 50.51 rejected.
C14_RuleWithExamples ==
    \A p \in Procs :
       /\ pc[p] \in {"ca_store", "ca_streak"} =>
             (view[p].is_correct <=>
                Rule(view[p].user_answer, questions[view[p].question].correct_answer))
       /\ Judged(p, <<20, 1000, 0>>, Decimal(20)) => ~view[p].is_correct
       /\ Judged(p, <<50, 50000, 0>>, Decimal(50)) => view[p].is_correct
       /\ Judged(p, <<50, 51000, 0>>, Decimal(50)) => ~view[p].is_correct

\* C14 (amended): every submission is judged by the three-case rule: against
\* 0 only 0 is accepted; against an integral answer only that answer (20.01
\* against 20 is rejected, and so are 50.5 and 50.51 against 50); otherwise a
\* submission is accepted iff |submitted - correct| / |correct| <= 1%, the
\* boundary included (0.505 against 0.5 is accepted, 0.506 is rejected).
C14_ThreeCaseRule ==
    \A p \in Procs :
       /\ pc[p] \in {"ca_store", "ca_streak"} =>
             (view[p].is_correct <=>
                Rule(view[p].user_answer, questions[view[p].question].correct_answer))
       /\ Judged(p, <<20, 1000, 0>>, Decimal(20)) => ~view[p].is_correct
       /\ Judged(p, <<50, 50000, 0>>, Decimal(50)) => ~view[p].is_correct
       /\ Judged(p, <<50, 51000, 0>>, Decimal(50)) => ~view[p].is_correct
       /\ Judged(p, <<0, 50500, 0>>, <<0, 50000, 0>>) => view[p].is_correct
       /\ Judged(p, <<0, 50600, 0>>, <<0, 50000, 0>>) => ~view[p].is_correct
\* 0.505 has been judged a correct answer to 0.5, after 0.506 was stored as an
\* incorrect one
C14_Witness ==
    /\ Judged(1, <<0, 50500, 0>>, <<0, 50000, 0>>) /\ view[1].is_correct
    /\ Len(answers) = 1 /\ ~answers[1].is_correct
    /\ answers[1].user_answer = <<0, 50600, 0>>

\* C15: get_box_distribution(user) has exactly the keys 1..5; the value of a
\* box is the number of the user's cards in it, 0 for a box without one; the
\* values sum to the number of topics of the user that have a card, so a
\* topic get_or_create_card was never called for is counted in no box.
C15_BoxDistribution ==
    \A u \in Users :
       LET d == get_box_distribution(cards, u)
       IN /\ DOMAIN d = 1..5
          /\ \A b \in 1..5 :
                /\ d[b] = Cardinality({r \in cards : r.user = u /\ r.box_number = b})
                /\ d[b] = 0 <=> ~\E r \in cards : r.user = u /\ r.box_number = b
          /\ d[1] + d[2] + d[3] + d[4] + d[5] =
                Cardinality({k \in {ArthurAdd, ArthurMul, LenaAdd} :
                               k[1] = u /\ RowsFor(cards, k[1], k[2], k[3]) # {}})
\* a learner with one card, in box 2, and a topic never asked for: box 1
\* counts 0 and box 2 counts 1, while the other learner has a card in box 1
C15_Witness ==
    /\ RowsFor(cards, "Arthur", 1, "MUL") = {}
    /\ get_box_distribution(cards, "Arthur") = [b \in 1..5 |-> IF b = 2 THEN 1 ELSE 0]
    /\ get_box_distribution(cards, "Lena")[1] = 1

\* a topic that is not in the catalog: a level that is given and is none of
\* 1..13, or an operation that is given and is none of the five codes
InvalidTopic(d, o) ==
    \/ d # NoLevel /\ d \notin 1..13
    \/ o # NoOp /\ o \notin {"ADD", "SUB", "MUL", "DIV", "PCT"}

\* the index request of the one worker of SpecGen, for (d, o)
Generates(d, o) == Index(1, d, o)

\* C16: generate fails for a topic that is not in the catalog and returns no
\* question: no index request for such a topic adds a question row.
C16_InvalidTopicFails ==
    [][\A d \in AnyLevelInputs, o \in AnyOperationInputs :
         (InvalidTopic(d, o) /\ Generates(d, o)) => questions' = questions]_vars

\* the operation of a level, by the names of DifficultyLevel
TopicOperation(level) ==
    IF level <= 8 THEN "MUL"
    ELSE IF level <= 10 THEN "DIV"
    ELSE IF level = 11 THEN "PCT"
    ELSE IF level = 12 THEN "ADD" ELSE "SUB"

\* C18: the question generate returns has the requested topic: for a level
\* of 1..13 it has that difficulty_level and the operation of that level,
\* whatever operation was passed along; for no level and one of the five
\* operations it has that operation.
C18_RequestedTopic ==
    [][\A d \in AnyLevelInputs, o \in AnyOperationInputs :
         (Generates(d, o) /\ questions' # questions) =>
            LET q == questions'[Len(questions')]
            IN /\ d \in 1..13 =>
                     q.difficulty_level = d /\ q.operation = TopicOperation(d)
               /\ (d = NoLevel /\ o \in {"ADD", "SUB", "MUL", "DIV", "PCT"}) =>
                     q.operation = o]_vars
\* a subtraction question and a level-9 division question were generated
C18_Witness ==
    /\ Len(questions) = 2
    /\ questions[1].operation = "SUB" /\ questions[1].difficulty_level = 13
    /\ questions[2].operation = "DIV" /\ questions[2].difficulty_level = 9

\* C17: at one card state and clock reading, get_due_count(user) is the
\* length of get_due_cards(user) without a limit, and it is the number of
\* that user's cards with next_review <= now.
C17_DueCount ==
    \A u \in Users :
       /\ \A s \in get_due_cards(cards, u, NoLimit, now) :
             Len(s) = get_due_count(cards, u, now)
       /\ get_due_count(cards, u, now) =
             Cardinality({r \in cards : r.user = u /\ r.next_review <= now})
\* a learner with two cards of which one is due, the one that is due exactly
\* now, while the other learner has a due card too
C17_Witness ==
    \E u \in Users :
       /\ Cardinality({r \in cards : r.user = u}) = 2
       /\ get_due_count(cards, u, now) = 1
       /\ \E r \in cards : r.user = u /\ r.next_review = now
       /\ \E r \in cards : r.user # u /\ r.next_review <= now

\* a step of a record_answer call of worker p
RecordStep(p) == MarkStep(p) \/ IntervalStep(p) \/ SaveStep(p)

\* C19: every record_answer call raises exactly one of times_correct and
\* times_incorrect of its card by 1 and keeps the other; no counter of a
\* stored card is negative or ever decreases; and the two counters of a
\* stored card sum to the number of record_answer calls applied to it.
C19_CountersCount ==
    [][/\ \A p \in Procs : MarkStep(p) =>
            \/ /\ inst'[p].times_correct = inst[p].times_correct + 1
               /\ inst'[p].times_incorrect = inst[p].times_incorrect
            \/ /\ inst'[p].times_correct = inst[p].times_correct
               /\ inst'[p].times_incorrect = inst[p].times_incorrect + 1
       /\ \A p \in Procs : (IntervalStep(p) \/ SaveStep(p)) =>
            /\ inst'[p].times_correct = inst[p].times_correct
            /\ inst'[p].times_incorrect = inst[p].times_incorrect
       /\ \A r \in cards :
            /\ r.times_correct >= 0 /\ r.times_incorrect >= 0
            /\ RowAfter(r.id).times_correct >= r.times_correct
            /\ RowAfter(r.id).times_incorrect >= r.times_incorrect
       /\ \A r \in cards' :
            r.times_correct + r.times_incorrect =
               applied'[r.id].correct + applied'[r.id].incorrect]_vars

\* C20: a record_answer call changes the row of its card only: every other
\* card row, of whatever topic and learner, stays as it is, no row is added
\* or removed, and no profile changes; an update_streak call changes the
\* profile row of its learner only, and no card row and no card instance.
C20_Frame ==
    [][\A p \in Procs :
         /\ RecordStep(p) =>
               /\ \A r \in cards : r.id # inst[p].id => r \in cards'
               /\ {r.id : r \in cards'} = {r.id : r \in cards}
               /\ profiles' = profiles
         /\ StreakStep(p) =>
               /\ cards' = cards /\ inst' = inst
               /\ DOMAIN profiles' = DOMAIN profiles
               /\ \A u \in DOMAIN profiles :
                     u # view[p].user => profiles'[u] = profiles[u]]_vars
\* a card was answered while the learner had a second card, in another box,
\* the other learner a card too, and a streak had been raised
C20_Witness ==
    /\ Holding(1) /\ ret[1].path = "none" /\ ret[1].value = 1
    /\ inst[1].times_incorrect = 1
    /\ \E r \in cards : r.user = inst[1].user /\ r.id # inst[1].id /\ r.box_number = 2
    /\ \E r \in cards : r.user # inst[1].user
    /\ \E u \in DOMAIN profiles : profiles[u].current_streak = 1

\* a card after k record_answer(True) calls in a row, at the present clock
RECURSIVE CorrectRun(_, _)
CorrectRun(card, k) ==
    IF k = 0 THEN card ELSE CorrectRun(Answered(card, TRUE, now, now), k - 1)

\* C21: no card state is terminal: on every card a worker holds, a correct
\* and an incorrect record_answer call can start (as long as the behaviour
\* has answers left to give), and a call that has started can take its next
\* step; from every card state, stored or held, one incorrect answer leads
\* to box 1 and at most four correct answers in a row lead to box 5; so box 1
\* and box 5 can be reached from every reachable state.
C21_NoTerminalState ==
    /\ \A p \in Procs : (Holding(p) /\ TotalApplied + RecordsInFlight < DeepAnswers) =>
          /\ ENABLED RecordAnswer(p, TRUE, Limits(DeepTicks, DeepAnswers))
          /\ ENABLED RecordAnswer(p, FALSE, Limits(DeepTicks, DeepAnswers))
    /\ \A p \in Procs :
          /\ pc[p] = "ra_interval" => ENABLED RaInterval(p)
          /\ pc[p] = "ra_save" => ENABLED RaSave(p)
    /\ \A c \in cards \cup {inst[p] : p \in {q \in Procs : HasCard(q)}} :
          /\ Answered(c, FALSE, now, now).box_number = 1
          /\ \E k \in 0..4 : CorrectRun(c, k).box_number = 5
          /\ \A k \in 0..4 : CorrectRun(c, k).box_number = Min(c.box_number + k, 5)
\* a card that has climbed to box 5 and fallen back to box 1 is held, with
\* an answer left to give
C21_Witness ==
    /\ Holding(1) /\ TotalApplied < DeepAnswers
    /\ inst[1].box_number = 1 /\ inst[1].times_correct = 4 /\ inst[1].times_incorrect = 1
    /\ inst[1] \in cards
    /\ ENABLED RecordAnswer(1, TRUE, Limits(DeepTicks, DeepAnswers))

\* C22: every card in box 1 is due, from its creation or from the answer
\* that moved it there until its next record_answer; a card in a box b >= 2
\* was moved there by an answer and is not due before interval(b) days have
\* passed since that answer.
C22_BoxOneIsDue ==
    \A c \in cards \cup {inst[p] : p \in {q \in Procs : Holding(q)}} :
       /\ c.box_number = 1 => is_due(c, now)
       /\ c.box_number >= 2 =>
             /\ c.last_reviewed # NoTime
             /\ now < c.last_reviewed + timedelta(BOX_INTERVALS(c.box_number)) =>
                   ~is_due(c, now)
\* a card that an incorrect answer moved back to box 1 is still due after
\* the clock has moved on
C22_Witness ==
    \E c \in cards :
       /\ c.box_number = 1 /\ c.times_incorrect = 1 /\ c.times_correct >= 1
       /\ c.next_review < now /\ is_due(c, now)

\* C23: a card created by get_or_create_card and changed by record_answer
\* calls that come one after the other has box_number =
\* min(consecutive_correct + 1, 5) and consecutive_correct <= times_correct,
\* as a stored row and as the instance a worker holds.
C23_BoxFollowsRun ==
    \A c \in cards \cup {inst[p] : p \in {q \in Procs : Holding(q)}} :
       /\ c.box_number = Min(c.consecutive_correct + 1, 5)
       /\ c.consecutive_correct <= c.times_correct
       /\ c.consecutive_correct >= 0
\* after an incorrect answer, five correct answers in a row: the card is in
\* box 5, where the fifth answer has left it
C23_Witness ==
    \E c \in cards :
       /\ c.consecutive_correct = 5 /\ c.box_number = 5
       /\ c.times_incorrect = 1 /\ c.times_correct = 5

\* the Answer log of learner u, in primary-key order
Log(u) == LET Mine(a) == a.user = u IN SelectSeq(answers, Mine)

\* the length of the run of correct answers a log ends in
RECURSIVE TrailingRun(_)
TrailingRun(log) ==
    IF log = <<>> \/ ~log[Len(log)].is_correct THEN 0
    ELSE 1 + TrailingRun(SubSeq(log, 1, Len(log) - 1))

\* the length of the longest run of correct answers in a log
RECURSIVE LongestRun(_)
LongestRun(log) ==
    IF log = <<>> THEN 0
    ELSE Max(TrailingRun(log), LongestRun(SubSeq(log, 1, Len(log) - 1)))

\* the streak of every learner with no update pending is that of the log
StreakMatchesLog ==
    \A u \in Users :
       (\A p \in Procs : ~(pc[p] = "ca_streak" /\ view[p].user = u)) =>
          /\ profiles[u].current_streak = TrailingRun(Log(u))
          /\ profiles[u].best_streak = LongestRun(Log(u))

\* C24: with the submissions of a learner processed one at a time, a
\* check_answer request that passes the checks adds exactly one Answer row,
\* then updates the streak of its learner once; and whenever no update is
\* pending, current_streak is the length of the run of correct answers the
\* learner's Answer log (over all topics) ends in and best_streak the length
\* of the longest run of correct answers in it.
C24_StreakIsLogRun ==
    /\ StreakMatchesLog
    /\ [][/\ \A p \in Procs :
              (pc[p] = "ca_store" /\ pc'[p] = "ca_streak") =>
                 /\ Len(answers') = Len(answers) + 1
                 /\ SubSeq(answers', 1, Len(answers)) = answers
                 /\ answers'[Len(answers')].user = view[p].user
                 /\ profiles' = profiles
          /\ \A p \in Procs :
              StreakStep(p) =>
                 /\ answers' = answers
                 /\ \A u \in Users : u # view[p].user => profiles'[u] = profiles[u]
          /\ \A p \in Procs :
              (pc[p] = "ca_parse" /\ pc'[p] # "ca_parse") =>
                 answers' = answers /\ profiles' = profiles
          /\ StreakMatchesLog']_vars
\* a learner answered correctly, then incorrectly, then correctly, on two
\* topics: two of three answers are correct, and the streak and the best
\* streak are 1
C24_Witness ==
    \E u \in Users :
       /\ profiles[u].current_streak = 1 /\ profiles[u].best_streak = 1
       /\ Len(Log(u)) = 3
       /\ Log(u)[1].is_correct /\ ~Log(u)[2].is_correct /\ Log(u)[3].is_correct
       /\ {Log(u)[i].question : i \in 1..3} = {1, 2}
       /\ \A p \in Procs : pc[p] = "idle"

====
